---------------------------- MODULE Spec2Model ----------------------------
(***************************************************************************)
(* Violence-detection notebooks of baldeoJV/DeepLearning-Project.          *)
(*                                                                         *)
(*  - predict_video notebook (src/unnamed/part_000): process_video, the    *)
(*    frame-by-frame annotator with its rolling window Q of 32 scores.     *)
(*    Specification: Spec.                                                 *)
(*  - extract_frames_from_video.ipynb: the two extraction cells that keep  *)
(*    every 5th frame of every listed video.  Specification: ExtractSpec.  *)
(*  - predict_video notebook: list_input_videos and list_processed_videos, *)
(*    the two directory listings.  Specification: ListSpec.                *)
(*                                                                         *)
(* Scores are probabilities; the model keeps them exact as integers in     *)
(* units of 1/Scale, and a mean or a confidence as a fraction <<num, den>>.*)
(***************************************************************************)
EXTENDS Integers, Sequences, FiniteSets, TLC

\* ------------------------------------------------------------------ bounds
\* Most frames one video yields before cap.read() fails.
MaxFrames == 40
\* process_video calls in one kernel session.
MaxCalls == 2
\* A score is k/Scale for k in 0..Scale.
Scale == 2
\* Frame index at which a "step" video changes its score.
SwitchAt == 3
\* Most frames one source video yields to the extractor.
MaxExtractFrames == 27
\* Notebook cells of the extractor run in one kernel session.
MaxCellRuns == 4
\* Most entries ./input or ./output holds.
MaxEntries == 2

\* ------------------------------------------------- constants of the program
\* deque(maxlen=32)
WindowLen == 32
\* `frame_count % 5 == 0` of the display branch
DisplayStride == 5
\* `count % 5 == 0` of the extraction cells
ExtractStride == 5
\* str(count).zfill(4)
PadWidth == 4

\* Python's None, as a return value and as the empty model handle
None == <<"None">>
\* the handle keras load_model returns for ./model/model.h5
Loaded == <<"model", "./model/model.h5">>
\* the return value of a call that has not returned yet, and of no call at all
Pending == <<"pending">>
NoReturn == <<>>

\* input video names; output_path = ./output/processed_{video_name}
VideoNames == {"V_1.mp4", "NV_1.mp4"}

\* What the predictor answers on the frames of a readable video: frame i of a
\* "step" video scores a before SwitchAt and b from it on; frame i of an "alt"
\* video scores a on even and b on odd indices.
StepContents == [kind : {"step"}, a : 0..Scale, b : 0..Scale]
AltContents == {c \in [kind : {"alt"}, a : 0..Scale, b : 0..Scale] : c.a # c.b}
Contents == StepContents \cup AltContents
NoContent == [kind |-> "none", a |-> 0, b |-> 0]

\* model.predict(...)[0] on frame i of a video with content c
Predict(c, i) ==
    IF c.kind = "step"
    THEN (IF i < SwitchAt THEN c.a ELSE c.b)
    ELSE (IF i % 2 = 0 THEN c.a ELSE c.b)

\* ----------------------------------------------------------- pure helpers
RECURSIVE SumSeq(_)
SumSeq(s) == IF s = <<>> THEN 0 ELSE Head(s) + SumSeq(Tail(s))

Min(a, b) == IF a < b THEN a ELSE b

\* the last n elements of s, in order
LastN(s, n) == SubSeq(s, Len(s) - n + 1, Len(s))

\* Q.append(x) on a deque(maxlen=WindowLen) without the bound
DequeAppendUnbounded(q, x) == Append(q, x)

\* Q.append(x) on a deque(maxlen=WindowLen): once full, the oldest entry
\* (the left end) is discarded and x is added at the right end
DequeAppend(q, x) ==
    IF Len(q) >= WindowLen THEN Append(Tail(q), x) ELSE Append(q, x)

\* a mean over a fixed window length, whatever the deque holds
MeanFixedLen(q) == <<SumSeq(q), Scale * WindowLen>>

\* np.array(Q).mean(axis=0)[0] as the fraction <<num, den>>:
\* sum of the entries (each k/Scale) over their number
Mean(q) == <<SumSeq(q), Scale * Len(q)>>

\* results[0] >= 0.5
AtLeastHalf(r) == 2 * r[1] >= r[2]

\* is_violence = results[0] > 0.5
IsViolence(r) == 2 * r[1] > r[2]

\* confidence = results[0], whatever the label
ConfidenceMeanOnly(r, v) == r

\* confidence = results[0] if is_violence else 1 - results[0]
Confidence(r, v) == IF v THEN r ELSE <<r[2] - r[1], r[2]>>

\* f"{confidence:.2f}" as a number of hundredths.  The fraction is exact
\* here and a float in the program, so a value exactly half way between two
\* hundredths may be rendered as either.
Format2(c) ==
    LET fl == (100 * c[1]) \div c[2]
        rm == (100 * c[1]) % c[2]
    IN  IF 2 * rm < c[2] THEN {fl}
        ELSE IF 2 * rm > c[2] THEN {fl + 1}
        ELSE {fl, fl + 1}

LabelText(v) == IF v THEN "Violence" ELSE "Non-Violence"

\* (0, 0, 255) if is_violence else (0, 255, 0)
Color(v) == IF v THEN "red" ELSE "green"

OutputPath(name) == <<"./output", "processed_", name>>

\* a release that leaves the handle open
NoRelease(h) == h

\* cap.release() / writer.release()
Release(h) == [h EXCEPT !.released = TRUE]

\* load_violence_detection_model(): None when the model file is missing,
\* the loaded handle otherwise
LoadViolenceDetectionModel(fileExists) == IF fileExists THEN Loaded ELSE None

\* a test of the loaded handle that never gives up
NeverGivesUp(m) == FALSE

\* `if model is None: return None` after the load
GivesUp(m) == m = None

\* cv2.VideoCapture(video_path)
NoCapture == [made |-> FALSE, opened |-> FALSE, released |-> FALSE]
VideoCapture(opens) == [made |-> TRUE, opened |-> opens, released |-> FALSE]

\* cv2.VideoWriter(output_path, fourcc, fps, (width, height)): it opens when
\* the size read from the capture is a real one
NoWriter == [made |-> FALSE, path |-> <<>>, opened |-> FALSE, released |-> FALSE]
VideoWriter(path, opens) ==
    [made |-> TRUE, path |-> path, opened |-> opens, released |-> FALSE]

\* writer.write(f) that leaves out the frames that get displayed
WriterWriteSkipShown(w, f) ==
    IF f.frame % DisplayStride = 0 THEN w ELSE Append(w, f)

\* writer.write(f) that writes the frame twice
WriterWriteTwice(w, f) == Append(Append(w, f), f)

\* writer.write(output_frame): the frame is appended to the output stream
WriterWrite(w, f) == Append(w, f)

\* --------------------------------------------------------------- the state
VARIABLES
    \* predict_video notebook
    modelFile,      \* ./model/model.h5 exists
    model,          \* the global model handle: None or "loaded"
    outFiles,       \* files in ./output
    pc,             \* position of process_video
    calls,          \* process_video calls made
    video_name,     \* basename of video_path
    video_exists,   \* os.path.exists(video_path)
    display,        \* the display argument
    model_found,    \* os.path.exists(model_path) as the loader saw it:
                    \* "unchecked", "found", "missing"
    content,        \* what the opened video contains
    Q,              \* the rolling window
    cap,            \* the capture [made, opened, released]
    writer,         \* the writer [made, path, opened, released]
    frame_count,
    frame,          \* index of the frame last read
    results,        \* window mean <<num, den>>
    is_violence,
    confidence,     \* <<num, den>>
    output_frame,   \* the annotated copy
    decoded,        \* frames read successfully in this call, in order
    scores,         \* predictor answers of this call, in order
    written,        \* frames handed to writer.write in this call, in order
    shown,          \* frames handed to cv2.imshow in this call, in order
    endedBy,        \* how the loop ended: "none", "eof", "key"
    printed,        \* messages printed in this call
    reported,       \* N of "Processed N frames"
    ret,            \* return value of the last call
    outBefore,      \* outFiles when the call started
    load_log,       \* the load_violence_detection_model() calls process_video
                    \* has made: [call, got], oldest first
    \* extract_frames_from_video notebook
    srcDirs,        \* video/Violence and video/NonViolence: [exists, files]
    run,            \* the extraction run under way or last made: its
                    \* category, whether ./data/<category> was empty when
                    \* it started, and the cv2.imwrite calls it has made
    nframes,        \* decodable frames of each source video of the session
    vidpos,         \* frames read from vidcap so far
    video_files,    \* the global both listing cells assign: [defined, list]
    path_nv,        \* PATH_nonviolence is defined
    data,           \* ./data/<category>: the image files, each with the
                    \* video its pixels came from
    xpc,            \* position in the extraction cell: "idle", "for", "while"
    xcell,          \* the extraction cell being run
    cellRuns,       \* cells run so far
    todo,           \* the videos the for loop has not reached yet
    path,           \* the video being extracted
    fname,
    success,
    count,
    extracted,
    saved,          \* the counts cv2.imwrite was called with for this video
    frame_counts,   \* violence_frame_count, nonviolence_frame_count
    totals,         \* the totals the extraction cells printed
    summary,        \* violence_frames, nonviolence_frames of the summary cell
    \* predict_video notebook: the listing functions
    folders,        \* ./input and ./output: [exists, entries], the entries
                    \* in the order os.listdir yields them
    input_videos,   \* what list_input_videos returned: [called, videos]
    processed_videos, \* what list_processed_videos returned
    list_printed    \* messages the listing functions printed

pvars == <<modelFile, model, outFiles, pc, calls, video_name, video_exists,
           display, model_found, content, Q, cap, writer, frame_count, frame,
           results, is_violence, confidence, output_frame, decoded, scores,
           written, shown, endedBy, printed, reported, ret, outBefore,
           load_log>>

xvars == <<run, srcDirs, nframes, vidpos, video_files, path_nv, data, xpc, xcell, cellRuns, todo,
           path, fname, success, count, extracted, saved, frame_counts,
           totals, summary>>

lvars == <<folders, input_videos, processed_videos, list_printed>>

vars == <<pvars, xvars, lvars>>

NoFrame == [frame |-> -1, label |-> "", conf |-> -1, color |-> ""]

\* the locals of process_video before any of them is assigned
Locals0 ==
    [model_found |-> "unchecked", content |-> NoContent, cap |-> NoCapture,
     writer |-> NoWriter, frame_count |-> 0, frame |-> -1, results |-> <<0, 1>>,
     is_violence |-> FALSE, confidence |-> <<0, 1>>, output_frame |-> NoFrame,
     decoded |-> <<>>, scores |-> <<>>, written |-> <<>>, shown |-> <<>>,
     endedBy |-> "none", printed |-> {}, reported |-> -1]

\* the state once the cells up to `model = load_violence_detection_model()`
\* have run: the handle is loaded exactly when the model file was there
PredictKernel ==
    /\ modelFile \in BOOLEAN
    /\ model = LoadViolenceDetectionModel(modelFile)
    /\ outFiles = {}
    /\ pc = "idle"
    /\ calls = 0
    /\ video_name = "V_1.mp4"
    /\ video_exists = FALSE
    /\ display = FALSE
    /\ Q = <<>>
    /\ ret = NoReturn
    /\ outBefore = {}
    /\ load_log = <<>>
    /\ model_found = Locals0.model_found
    /\ content = Locals0.content
    /\ cap = Locals0.cap
    /\ writer = Locals0.writer
    /\ frame_count = Locals0.frame_count
    /\ frame = Locals0.frame
    /\ results = Locals0.results
    /\ is_violence = Locals0.is_violence
    /\ confidence = Locals0.confidence
    /\ output_frame = Locals0.output_frame
    /\ decoded = Locals0.decoded
    /\ scores = Locals0.scores
    /\ written = Locals0.written
    /\ shown = Locals0.shown
    /\ endedBy = Locals0.endedBy
    /\ printed = Locals0.printed
    /\ reported = Locals0.reported

\* ---------------------------------------------- the extractor: helpers
Categories == {"Violence", "NonViolence"}

\* os.path.basename of a source video, as its dot-separated pieces
BaseA == <<"V_1", "mp4">>
BaseB == <<"V_1", "avi">>
BaseC == <<"V_2", "mp4">>

\* a source directory: missing, or there with the entries glob lists
Missing == [exists |-> FALSE, files |-> <<>>]
Holding(l) == [exists |-> TRUE, files |-> l]

\* the source trees a session may find: video/Violence and video/NonViolence
SourceTrees ==
    {[Violence |-> Holding(<<BaseA, BaseB>>), NonViolence |-> Holding(<<BaseA>>)],
     [Violence |-> Holding(<<BaseC, BaseA>>), NonViolence |-> Holding(<<BaseA, BaseB>>)],
     [Violence |-> Holding(<<BaseA>>), NonViolence |-> Missing],
     [Violence |-> Missing, NonViolence |-> Holding(<<BaseC>>)]}

SourceDir(cat) == <<"video", cat>>

\* glob.glob(PATH + '/*'): the paths of a directory's entries, none when
\* the directory is missing
Glob(dirs, cat) ==
    IF dirs[cat].exists
    THEN [i \in 1..Len(dirs[cat].files) |->
            [dir |-> SourceDir(cat), base |-> dirs[cat].files[i]]]
    ELSE <<>>

NoPath == [dir |-> <<>>, base |-> <<>>]

\* os.path.basename(path).split('.')[0]
FName(p) == Head(p.base)

\* str(n): the decimal digits of n
RECURSIVE Str(_)
Str(n) == IF n < 10 THEN <<n>> ELSE Append(Str(n \div 10), n % 10)

\* s.zfill(w): zeros on the left up to width w
RECURSIVE ZFill(_, _)
ZFill(d, w) == IF Len(d) >= w THEN d ELSE ZFill(<<0>> \o d, w)

\* f"{fname}-{str(count).zfill(4)}.jpg"
FrameFile(fn, n) == <<fn, "-", ZFill(Str(n), PadWidth), ".jpg">>

\* vidcap.read() on a video of n decodable frames of which pos have been
\* read: it succeeds while a frame is left
ReadSucceeds(n, pos) == pos < n

\* a stride test that also keeps the frame after each kept one
KeepsFrameOffByOne(n) == n % ExtractStride <= 1

\* if count % 5 == 0
KeepsFrame(n) == n % ExtractStride = 0

\* cv2.imwrite(file, image) into a directory: the file is created, or
\* replaced when the name is taken
ImWrite(files, name, src, n) ==
    {f \in files : f.name # name} \cup {[name |-> name, src |-> src, idx |-> n]}

\* len(glob.glob('./data/<category>/*.jpg'))
CountJpg(files) == Cardinality({f.name : f \in files})

\* no extraction cell has reached its for loop yet
NoRun == [cat |-> "none", empty |-> FALSE, writes |-> {}]

\* the for loop of an extraction cell is entered
StartRun(files, cat) == [cat |-> cat, empty |-> files[cat] = {}, writes |-> {}]

\* the cells of the extractor notebook up to os.makedirs have run: both
\* ./data directories exist and are empty, no listing cell has run
ExtractKernel ==
    /\ vidpos = 0
    /\ run = NoRun
    /\ video_files = [defined |-> FALSE, list |-> <<>>]
    /\ path_nv = FALSE
    /\ data = [c \in Categories |-> {}]
    /\ xpc = "idle"
    /\ xcell = "none"
    /\ cellRuns = 0
    /\ todo = <<>>
    /\ path = NoPath
    /\ fname = ""
    /\ success = FALSE
    /\ count = 0
    /\ extracted = 0
    /\ saved = <<>>
    /\ frame_counts = [c \in Categories |-> -1]
    /\ totals = [c \in Categories |-> -1]
    /\ summary = [c \in Categories |-> -1]

\* ------------------------------------------- the listing functions: helpers
\* the names ./input and ./output may hold; a file name is the sequence of
\* its characters
EntryNames ==
    {<<"a", ".", "m", "p", "4">>,
     <<"A", ".", "M", "P", "4">>,
     <<"a", ".", "A", "v", "i">>,
     <<"a", ".", "m", "o", "v">>,
     <<"a", ".", "m", "k", "V">>,
     <<"a", ".", "m", "p", "4", ".", "t", "x", "t">>,
     <<"a", "m", "p", "4">>,
     <<"m", "k", "v">>}

\* what os.listdir may yield: distinct names in any order
Listings ==
    {l \in UNION {[1..k -> EntryNames] : k \in 0..MaxEntries} :
        \A i \in 1..Len(l) : \A j \in 1..Len(l) : i # j => l[i] # l[j]}

NoFolder == [exists |-> FALSE, entries |-> <<>>]
Folders == {NoFolder} \cup [exists : {TRUE}, entries : Listings]
FolderNames == {"input", "output"}

\* the letters of the names above that str.lower() changes
UpperCase == {"A", "K", "M", "O", "P", "V", "I"}
LowerChar(c) ==
    IF c \in UpperCase
    THEN CASE c = "A" -> "a" [] c = "K" -> "k" [] c = "M" -> "m"
           [] c = "O" -> "o" [] c = "P" -> "p" [] c = "V" -> "v"
           [] c = "I" -> "i"
    ELSE c

\* file.lower()
AsIs(file) == file
Lower(file) == [i \in 1..Len(file) |-> LowerChar(file[i])]

\* video_extensions = ['.mp4', '.avi', '.mov', '.mkv']
VideoExtensions ==
    << <<".", "m", "p", "4">>, <<".", "a", "v", "i">>,
       <<".", "m", "o", "v">>, <<".", "m", "k", "v">> >>

\* s.endswith(ext)
EndsWith(s, ext) ==
    /\ Len(s) >= Len(ext)
    /\ SubSeq(s, Len(s) - Len(ext) + 1, Len(s)) = ext

\* any(file.lower().endswith(ext) for ext in video_extensions)
AnyExtension(file) ==
    \E i \in 1..Len(VideoExtensions) : EndsWith(Lower(file), VideoExtensions[i])

\* for file in os.listdir(...): if any(...): videos.append(file)
RECURSIVE ListDirLoop(_, _)
ListDirLoop(entries, videos) ==
    IF entries = <<>> THEN videos
    ELSE ListDirLoop(Tail(entries),
                     IF AnyExtension(Head(entries))
                     THEN Append(videos, Head(entries))
                     ELSE videos)

\* the body both listing functions share: [] for a missing directory
ListVideos(folder) ==
    IF ~folder.exists THEN <<>> ELSE ListDirLoop(folder.entries, <<>>)

NotListed == [called |-> FALSE, videos |-> <<>>]

\* no listing function has been called; the directories are not there
ListKernel ==
    /\ input_videos = NotListed
    /\ processed_videos = NotListed
    /\ list_printed = {}

\* the predict notebook's kernel; the extractor notebook is not open
Init ==
    /\ PredictKernel
    /\ srcDirs = [c \in Categories |-> Missing]
    /\ nframes = 0
    /\ ExtractKernel
    /\ folders = [d \in FolderNames |-> NoFolder]
    /\ ListKernel

\* the extractor notebook's kernel; the predict notebook is not open
ExtractInit ==
    /\ PredictKernel
    /\ modelFile = FALSE
    /\ srcDirs \in SourceTrees
    /\ nframes \in 0..MaxExtractFrames
    /\ ExtractKernel
    /\ folders = [d \in FolderNames |-> NoFolder]
    /\ ListKernel

\* the predict notebook's kernel before a listing function is called, over
\* any ./input and ./output
ListInit ==
    /\ PredictKernel
    /\ modelFile = FALSE
    /\ srcDirs = [c \in Categories |-> Missing]
    /\ nframes = 0
    /\ ExtractKernel
    /\ folders \in [FolderNames -> Folders]
    /\ ListKernel

\* ------------------------------------------------------------ the actions
\* line 166: if model is None
NeedsLoadAlways(m) == TRUE
NeedsLoad(m) == m = None

\* line 245: if display and frame_count % 5 == 0
ShowsWheneverDisplay(d, n) == d
ShowsFrame(d, n) == d /\ n % DisplayStride = 0

\* line 172: Q = deque(maxlen=32) binds the local name to a fresh, empty
\* window, whatever an earlier call left under that name
KeepWindow(q) == q
NewWindow(q) == <<>>

\* the trainer notebook writes ./model/model.h5
TrainModel ==
    /\ pc = "idle"
    /\ ~modelFile
    /\ modelFile' = TRUE
    /\ UNCHANGED <<model, outFiles, pc, calls, video_name, video_exists,
                   display, model_found, content, Q, cap, writer, frame_count,
                   frame, results, is_violence, confidence, output_frame,
                   decoded, scores, written, shown, endedBy, printed,
                   reported, ret, outBefore>>
    /\ UNCHANGED load_log
    /\ UNCHANGED <<xvars, lvars>>

\* process_video(video_path, display=d) is called: a fresh frame of locals.
\* Q is left as it is: the name is unbound until line 172 binds it.
Call ==
    /\ pc = "idle"
    /\ calls < MaxCalls
    /\ \E n \in VideoNames, e \in BOOLEAN, d \in BOOLEAN :
          /\ video_name' = n
          /\ video_exists' = e
          /\ display' = d
    /\ calls' = calls + 1
    /\ pc' = "check_video"
    /\ ret' = Pending
    /\ outBefore' = outFiles
    /\ model_found' = Locals0.model_found
    /\ content' = Locals0.content
    /\ cap' = Locals0.cap
    /\ writer' = Locals0.writer
    /\ frame_count' = Locals0.frame_count
    /\ frame' = Locals0.frame
    /\ results' = Locals0.results
    /\ is_violence' = Locals0.is_violence
    /\ confidence' = Locals0.confidence
    /\ output_frame' = Locals0.output_frame
    /\ decoded' = Locals0.decoded
    /\ scores' = Locals0.scores
    /\ written' = Locals0.written
    /\ shown' = Locals0.shown
    /\ endedBy' = Locals0.endedBy
    /\ printed' = Locals0.printed
    /\ reported' = Locals0.reported
    /\ UNCHANGED <<modelFile, model, outFiles, Q>>
    /\ UNCHANGED load_log
    /\ UNCHANGED <<xvars, lvars>>

\* lines 152-162
CheckVideoPath ==
    /\ pc = "check_video"
    /\ IF ~video_exists
       THEN /\ printed' = printed \cup {"Error: Video file not found"}
            /\ ret' = None
            /\ pc' = "idle"
       ELSE /\ printed' = printed \cup {"Processing video"}
            /\ ret' = ret
            /\ pc' = "check_model"
    /\ UNCHANGED <<modelFile, model, outFiles, calls, video_name, video_exists,
                   display, model_found, content, Q, cap, writer, frame_count,
                   frame, results, is_violence, confidence, output_frame,
                   decoded, scores, written, shown, endedBy, reported,
                   outBefore>>
    /\ UNCHANGED load_log
    /\ UNCHANGED <<xvars, lvars>>

\* lines 164-169, with load_violence_detection_model (lines 112-122)
EnsureModel ==
    /\ pc = "check_model"
    /\ IF ~NeedsLoad(model)
       THEN /\ pc' = "open"
            /\ UNCHANGED <<model, model_found, printed, ret, load_log>>
       ELSE /\ model_found' = IF modelFile THEN "found" ELSE "missing"
            /\ printed' = printed \cup
                  {IF modelFile THEN "Model loaded successfully!"
                   ELSE "Error: Model file not found"}
            /\ model' = LoadViolenceDetectionModel(modelFile)
            /\ load_log' = Append(load_log, [call |-> calls, got |-> model'])
            /\ IF GivesUp(model')
               THEN /\ ret' = None
                    /\ pc' = "idle"
               ELSE /\ ret' = ret
                    /\ pc' = "open"
    /\ UNCHANGED <<modelFile, outFiles, calls, video_name, video_exists,
                   display, content, Q, cap, writer, frame_count, frame,
                   results, is_violence, confidence, output_frame, decoded,
                   scores, written, shown, endedBy, reported, outBefore>>
    /\ UNCHANGED <<xvars, lvars>>

\* lines 171-194: the window, the capture, the writer, the counter.  The
\* capture is built whether or not the file decodes; nothing tests
\* cap.isOpened().  A capture that did not open reports a 0x0 size, the
\* writer built on it does not open, and whether the backend leaves a file
\* behind is its own affair.
OpenVideo ==
    /\ pc = "open"
    /\ Q' = NewWindow(Q)
    /\ \/ \E c \in Contents :
             /\ content' = c
             /\ cap' = VideoCapture(TRUE)
             /\ writer' = VideoWriter(OutputPath(video_name), TRUE)
             /\ outFiles' = outFiles \cup {OutputPath(video_name)}
       \/ \E left \in BOOLEAN :
             /\ content' = NoContent
             /\ cap' = VideoCapture(FALSE)
             /\ writer' = VideoWriter(OutputPath(video_name), FALSE)
             /\ outFiles' = IF left THEN outFiles \cup {OutputPath(video_name)}
                            ELSE outFiles
    /\ frame_count' = 0
    /\ pc' = "read"
    /\ UNCHANGED <<modelFile, model, calls, video_name, video_exists, display,
                   model_found, frame, results, is_violence, confidence,
                   output_frame, decoded, scores, written, shown, endedBy,
                   printed, reported, ret, outBefore>>
    /\ UNCHANGED load_log
    /\ UNCHANGED <<xvars, lvars>>

\* lines 196-205: ret, frame = cap.read(); break when it fails
ReadFrame ==
    /\ pc = "read"
    /\ \/ /\ cap.opened
          /\ Len(decoded) < MaxFrames
          /\ frame' = Len(decoded)
          /\ decoded' = Append(decoded, Len(decoded))
          /\ pc' = "predict"
          /\ UNCHANGED endedBy
       \/ /\ endedBy' = "eof"
          /\ pc' = "cleanup"
          /\ UNCHANGED <<frame, decoded>>
    /\ UNCHANGED <<modelFile, model, outFiles, calls, video_name, video_exists,
                   display, model_found, content, Q, cap, writer, frame_count,
                   results, is_violence, confidence, output_frame, scores,
                   written, shown, printed, reported, ret, outBefore>>
    /\ UNCHANGED load_log
    /\ UNCHANGED <<xvars, lvars>>

\* lines 207-239: predict, append to the window, average, label, annotate
PredictFrame ==
    /\ pc = "predict"
    /\ LET preds == Predict(content, frame)
           q == DequeAppend(Q, preds)
           r == Mean(q)
           v == IsViolence(r)
           c == Confidence(r, v)
       IN  /\ scores' = Append(scores, preds)
           /\ Q' = q
           /\ results' = r
           /\ is_violence' = v
           /\ confidence' = c
           /\ \E h \in Format2(c) :
                 output_frame' = [frame |-> frame, label |-> LabelText(v),
                                  conf |-> h, color |-> Color(v)]
    /\ pc' = "write"
    /\ UNCHANGED <<modelFile, model, outFiles, calls, video_name, video_exists,
                   display, model_found, content, cap, writer, frame_count,
                   frame, decoded, written, shown, endedBy, printed, reported,
                   ret, outBefore>>
    /\ UNCHANGED load_log
    /\ UNCHANGED <<xvars, lvars>>

\* lines 241-242
WriteFrame ==
    /\ pc = "write"
    /\ written' = WriterWrite(written, output_frame)
    /\ pc' = "display"
    /\ UNCHANGED <<modelFile, model, outFiles, calls, video_name, video_exists,
                   display, model_found, content, Q, cap, writer, frame_count,
                   frame, results, is_violence, confidence, output_frame,
                   decoded, scores, shown, endedBy, printed, reported, ret,
                   outBefore>>
    /\ UNCHANGED load_log
    /\ UNCHANGED <<xvars, lvars>>

\* lines 244-254: show every 5th frame and leave the loop on 'q'; otherwise
\* count the frame
DisplayAndCount ==
    /\ pc = "display"
    /\ IF ShowsFrame(display, frame_count)
       THEN /\ shown' = Append(shown, output_frame.frame)
            /\ \/ /\ endedBy' = "key"
                  /\ pc' = "cleanup"
                  /\ UNCHANGED frame_count
               \/ /\ frame_count' = frame_count + 1
                  /\ pc' = "read"
                  /\ UNCHANGED endedBy
       ELSE /\ frame_count' = frame_count + 1
            /\ pc' = "read"
            /\ UNCHANGED <<shown, endedBy>>
    /\ UNCHANGED <<modelFile, model, outFiles, calls, video_name, video_exists,
                   display, model_found, content, Q, cap, writer, frame,
                   results, is_violence, confidence, output_frame, decoded,
                   scores, written, printed, reported, ret, outBefore>>
    /\ UNCHANGED load_log
    /\ UNCHANGED <<xvars, lvars>>

\* lines 256-271
CleanUp ==
    /\ pc = "cleanup"
    /\ cap' = Release(cap)
    /\ writer' = Release(writer)
    /\ reported' = frame_count
    /\ printed' = printed \cup {"Processed N frames", "Output saved to"}
    /\ ret' = writer.path
    /\ pc' = "idle"
    /\ UNCHANGED <<modelFile, model, outFiles, calls, video_name, video_exists,
                   display, model_found, content, Q, frame_count, frame,
                   results, is_violence, confidence, output_frame, decoded,
                   scores, written, shown, endedBy, outBefore>>
    /\ UNCHANGED load_log
    /\ UNCHANGED <<xvars, lvars>>

\* ---------------------------------------------- the extractor: actions
CanRunCell == xpc = "idle" /\ cellRuns < MaxCellRuns

\* lines 83-92: the violence listing cell
ListViolence ==
    /\ CanRunCell
    /\ cellRuns' = cellRuns + 1
    /\ video_files' = IF srcDirs["Violence"].exists
                      THEN [defined |-> TRUE, list |-> Glob(srcDirs, "Violence")]
                      ELSE video_files
    /\ UNCHANGED <<run, srcDirs, nframes, vidpos, path_nv, data, xpc, xcell, todo, path, fname,
                   success, count, extracted, saved, frame_counts, totals,
                   summary>>
    /\ UNCHANGED <<pvars, lvars>>

\* lines 174-183: the non-violence listing cell
ListNonViolence ==
    /\ CanRunCell
    /\ cellRuns' = cellRuns + 1
    /\ path_nv' = TRUE
    /\ video_files' = IF srcDirs["NonViolence"].exists
                      THEN [defined |-> TRUE,
                            list |-> Glob(srcDirs, "NonViolence")]
                      ELSE video_files
    /\ UNCHANGED <<run, srcDirs, nframes, vidpos, data, xpc, xcell, todo, path, fname, success,
                   count, extracted, saved, frame_counts, totals, summary>>
    /\ UNCHANGED <<pvars, lvars>>

\* lines 130-132: the violence extraction cell starts; it walks the global
\* video_files and stops with a NameError when no listing cell assigned it
StartViolence ==
    /\ CanRunCell
    /\ cellRuns' = cellRuns + 1
    /\ frame_counts' = [frame_counts EXCEPT !["Violence"] = 0]
    /\ IF video_files.defined
       THEN /\ todo' = video_files.list
            /\ xcell' = "Violence"
            /\ xpc' = "for"
            /\ run' = StartRun(data, "Violence")
       ELSE UNCHANGED <<todo, xcell, xpc, run>>
    /\ UNCHANGED <<srcDirs, nframes, vidpos, video_files, path_nv, data, path, fname, success,
                   count, extracted, saved, totals, summary>>
    /\ UNCHANGED <<pvars, lvars>>

\* lines 221-223: the non-violence extraction cell starts; it walks
\* glob.glob(PATH_nonviolence + '/*') and stops with a NameError when the
\* listing cell has not defined PATH_nonviolence
StartNonViolence ==
    /\ CanRunCell
    /\ cellRuns' = cellRuns + 1
    /\ frame_counts' = [frame_counts EXCEPT !["NonViolence"] = 0]
    /\ IF path_nv
       THEN /\ todo' = Glob(srcDirs, "NonViolence")
            /\ xcell' = "NonViolence"
            /\ xpc' = "for"
            /\ run' = StartRun(data, "NonViolence")
       ELSE UNCHANGED <<todo, xcell, xpc, run>>
    /\ UNCHANGED <<srcDirs, nframes, vidpos, video_files, path_nv, data, path, fname, success,
                   count, extracted, saved, totals, summary>>
    /\ UNCHANGED <<pvars, lvars>>

\* lines 132-137 and 223-228: the next video of the for loop is opened and
\* its first frame read; after the last one the cell prints its total
\* (lines 149-150, 241-242)
NextVideo ==
    /\ xpc = "for"
    /\ IF todo = <<>>
       THEN /\ totals' = [totals EXCEPT ![xcell] = frame_counts[xcell]]
            /\ xpc' = "idle"
            /\ xcell' = "none"
            /\ UNCHANGED <<todo, path, fname, success, count, extracted, saved,
                           vidpos>>
       ELSE /\ path' = Head(todo)
            /\ todo' = Tail(todo)
            /\ fname' = FName(Head(todo))
            /\ success' = ReadSucceeds(nframes, 0)
            /\ vidpos' = IF success' THEN 1 ELSE 0
            /\ count' = 0
            /\ extracted' = 0
            /\ saved' = <<>>
            /\ xpc' = "while"
            /\ UNCHANGED <<totals, xcell>>
    /\ UNCHANGED <<run, srcDirs, nframes, video_files, path_nv, data, cellRuns, frame_counts,
                   summary>>
    /\ UNCHANGED <<pvars, lvars>>

\* lines 140-145 and 231-236: one turn of the while loop
ExtractFrame ==
    /\ xpc = "while"
    /\ success
    /\ IF KeepsFrame(count)
       THEN /\ data' = [data EXCEPT ![xcell] =
                           ImWrite(@, FrameFile(fname, count), path, count)]
            /\ saved' = Append(saved, count)
            /\ extracted' = extracted + 1
            /\ run' = [run EXCEPT !.writes = @ \cup
                          {[name |-> FrameFile(fname, count), src |-> path,
                            idx |-> count]}]
       ELSE UNCHANGED <<data, saved, extracted, run>>
    /\ success' = ReadSucceeds(nframes, vidpos)
    /\ vidpos' = IF success' THEN vidpos + 1 ELSE vidpos
    /\ count' = count + 1
    /\ UNCHANGED <<srcDirs, nframes, video_files, path_nv, xpc, xcell, cellRuns, todo,
                   path, fname, frame_counts, totals, summary>>
    /\ UNCHANGED <<pvars, lvars>>

\* lines 146-147 and 238-239: the video is exhausted
EndVideo ==
    /\ xpc = "while"
    /\ ~success
    /\ frame_counts' = [frame_counts EXCEPT ![xcell] = @ + extracted]
    /\ xpc' = "for"
    /\ UNCHANGED <<run, srcDirs, nframes, vidpos, video_files, path_nv, data, xcell, cellRuns, todo,
                   path, fname, success, count, extracted, saved, totals,
                   summary>>
    /\ UNCHANGED <<pvars, lvars>>

\* lines 268-272: the summary cell counts the image files on disk
Summary ==
    /\ CanRunCell
    /\ cellRuns' = cellRuns + 1
    /\ summary' = [c \in Categories |-> CountJpg(data[c])]
    /\ UNCHANGED <<run, srcDirs, nframes, vidpos, video_files, path_nv, data, xpc, xcell, todo, path,
                   fname, success, count, extracted, saved, frame_counts,
                   totals>>
    /\ UNCHANGED <<pvars, lvars>>

ExtractNext ==
    \/ ListViolence
    \/ ListNonViolence
    \/ StartViolence
    \/ StartNonViolence
    \/ NextVideo
    \/ ExtractFrame
    \/ EndVideo
    \/ Summary

ExtractSpec == ExtractInit /\ [][ExtractNext]_vars

\* ------------------------------------- the listing functions: actions
\* lines 297-310: list_input_videos()
ListInputVideos ==
    /\ input_videos' = [called |-> TRUE, videos |-> ListVideos(folders["input"])]
    /\ list_printed' = IF folders["input"].exists THEN list_printed
                       ELSE list_printed \cup {"Input directory does not exist."}
    /\ UNCHANGED <<folders, processed_videos>>
    /\ UNCHANGED <<pvars, xvars>>

\* lines 557-570: list_processed_videos()
ListProcessedVideos ==
    /\ processed_videos' =
          [called |-> TRUE, videos |-> ListVideos(folders["output"])]
    /\ list_printed' = IF folders["output"].exists THEN list_printed
                       ELSE list_printed \cup {"Output directory does not exist."}
    /\ UNCHANGED <<folders, input_videos>>
    /\ UNCHANGED <<pvars, xvars>>

ListNext ==
    \/ ListInputVideos
    \/ ListProcessedVideos

ListSpec == ListInit /\ [][ListNext]_vars

Next ==
    \/ TrainModel
    \/ Call
    \/ CheckVideoPath
    \/ EnsureModel
    \/ OpenVideo
    \/ ReadFrame
    \/ PredictFrame
    \/ WriteFrame
    \/ DisplayAndCount
    \/ CleanUp

Spec == Init /\ [][Next]_vars

\* a step of the loop of process_video or of its clean-up
LoopStep == ReadFrame \/ PredictFrame \/ WriteFrame \/ DisplayAndCount \/ CleanUp

\* ------------------------------------------------------------- the claims
\* the loop of process_video is running or has just ended
InLoop == pc \in {"read", "predict", "write", "display", "cleanup"}

\* the frame just read has been scored and labelled
Labelled == pc \in {"write", "display"}

\* the frame indices of a sequence of annotated frames
FramesOf(w) == [i \in 1..Len(w) |-> w[i].frame]

\* a call of process_video has returned
Returned == pc = "idle" /\ calls > 0

\* C1: after k frames have been scored the window holds at most 32 entries
\* and is exactly the last min(k, 32) scores of this video in arrival order
\* (so an insertion into a full window drops the oldest entry and nothing
\* else, and puts the new score at the end).
C1_WindowIsLastScores ==
    /\ Len(Q) <= WindowLen
    /\ InLoop => Q = LastN(scores, Min(Len(scores), WindowLen))

C1_Witness ==
    /\ pc = "write"
    /\ Len(scores) = WindowLen + 5
    /\ Len(Q) = WindowLen
    /\ Q[1] = scores[6]
    /\ scores[1] # scores[6]

\* C2: the mean used to label frame k is the arithmetic average of the
\* first k scores while k <= 32 and of the 32 most recent scores after that.
C2_MeanOfWindow ==
    Labelled =>
        LET k == Len(decoded)
            m == Min(k, WindowLen)
            w == LastN(scores, m)
        IN  /\ Len(scores) = k
            /\ results[2] > 0
            /\ results[1] * (Scale * m) = SumSeq(w) * results[2]

C2_Witness ==
    /\ pc = "write"
    /\ Len(decoded) = MaxFrames
    /\ results[1] * (Scale * Len(scores)) # SumSeq(scores) * results[2]

\* C3 as claimed: the frame is labelled violent when the window mean is
\* greater than or equal to 0.5 and non-violent otherwise.
C3_ViolentAtHalf ==
    Labelled =>
        output_frame.label = (IF AtLeastHalf(results) THEN "Violence"
                              ELSE "Non-Violence")

\* C3 as the code has it: the frame is labelled violent when the window mean
\* is strictly greater than 0.5 and non-violent otherwise; a mean of exactly
\* 0.5 is labelled non-violent.
C3_ViolentAboveHalf ==
    Labelled =>
        /\ (2 * results[1] > results[2]) => output_frame.label = "Violence"
        /\ (2 * results[1] <= results[2]) => output_frame.label = "Non-Violence"
        /\ output_frame.color = (IF output_frame.label = "Violence" THEN "red"
                                 ELSE "green")

C3_Witness ==
    /\ pc = "write"
    /\ 2 * results[1] = results[2]
    /\ Len(Q) > 1
    /\ output_frame.label = "Non-Violence"

\* C4: for every window mean (which lies in [0, 1]) the confidence equals the
\* mean when the label is violent and 1 - mean when it is non-violent; the
\* text on the frame is that value to two decimals.
C4_Confidence ==
    Labelled =>
        /\ 0 <= results[1] /\ results[1] <= results[2]
        /\ confidence[2] > 0
        /\ output_frame.label = "Violence" =>
              confidence[1] * results[2] = results[1] * confidence[2]
        /\ output_frame.label = "Non-Violence" =>
              confidence[1] * results[2] =
                  (results[2] - results[1]) * confidence[2]
        /\ LET d == 100 * confidence[1] - output_frame.conf * confidence[2]
           IN  2 * d <= confidence[2] /\ 2 * d >= -confidence[2]

C4_Witness ==
    /\ pc = "write"
    /\ output_frame.label = "Non-Violence"
    /\ results[1] > 0
    /\ 2 * results[1] < results[2]
    /\ confidence[1] * results[2] # results[1] * confidence[2]

\* C5: the frames written are, one for one and in order, the frames decoded:
\* while a frame is being annotated it is the only decoded frame not yet
\* written, and however the loop ends nothing is missing, doubled or moved.
C5_WrittenIsDecoded ==
    /\ pc \in {"predict", "write"} =>
          FramesOf(written) = SubSeq(decoded, 1, Len(decoded) - 1)
    /\ pc \in {"read", "display", "cleanup"} => FramesOf(written) = decoded
    /\ (Returned /\ ret # None) => FramesOf(written) = decoded
    /\ \A i \in 1..Len(decoded) : decoded[i] = i - 1

C5_Witness ==
    /\ Returned
    /\ endedBy = "eof"
    /\ Len(decoded) > WindowLen
    /\ Len(written) = Len(decoded)

\* C6: when the video file exists but the reader cannot open it, the call
\* reports it and aborts: None is returned, no writer is made and no output
\* file appears.
C6_UnreadableVideoAborts ==
    (Returned /\ video_exists /\ cap.made /\ ~cap.opened) =>
        /\ ret = None
        /\ ~writer.made
        /\ outFiles = outBefore
        /\ \E m \in printed : m \notin {"Processing video"}

\* C7: when the video path does not exist, or no model is loaded and the
\* model file is missing, the call reports it, returns None, and neither
\* makes a writer nor adds an output file.
C7_MissingInputAborts ==
    (calls > 0 /\ (~video_exists \/ model_found = "missing")) =>
        /\ pc \in {"check_video", "idle"}
        /\ ~writer.made
        /\ ~cap.made
        /\ outFiles = outBefore
        /\ pc = "idle" =>
              /\ ret = None
              /\ ~video_exists => "Error: Video file not found" \in printed
              /\ video_exists => "Error: Model file not found" \in printed

C7_Witness ==
    /\ Returned
    /\ video_exists
    /\ model_found = "missing"
    /\ model = None
    /\ ret = None
    /\ calls = 2
    /\ outFiles = {}

\* the state part of C8: a failed read has ended the loop, and the call that
\* ended so after at least one frame has released capture and writer and
\* returned the output path, not None
C8_EndOfStream ==
    /\ endedBy = "eof" => pc \in {"cleanup", "idle"}
    /\ pc \in {"predict", "write", "display"} => endedBy = "none"
    /\ (Returned /\ endedBy = "eof" /\ Len(decoded) >= 1) =>
          /\ cap.released
          /\ writer.released
          /\ ret = OutputPath(video_name)
          /\ ret # None
          /\ ret \in outFiles

\* what is left of the loop: the frames the video may still yield, and
\* within one turn the steps up to the next read
LoopRank ==
    4 * (MaxFrames - Len(decoded))
        + (CASE pc = "predict" -> 5
             [] pc = "write" -> 4
             [] pc = "display" -> 3
             [] pc = "read" -> 2
             [] pc = "cleanup" -> 1
             [] OTHER -> 0)

\* C8: on every finite video the loop ends, and it ends at the first failed
\* read; after at least one decoded frame that is a normal end (capture and
\* writer released, the output path returned).  Every step of the loop
\* brings the return nearer, so no video of finitely many frames keeps the
\* loop running.
C8_EndOfStreamIsNormalEnd ==
    /\ []C8_EndOfStream
    /\ [][LoopStep => LoopRank' < LoopRank]_vars

C8_Witness ==
    /\ Returned
    /\ endedBy = "eof"
    /\ Len(decoded) = 1
    /\ ret = OutputPath(video_name)

\* C9: when a keypress ends the loop, every decoded frame, the displayed one
\* included, has been written, and capture and writer are released before
\* the output path is returned.
C9_KeypressExit ==
    endedBy = "key" =>
        /\ display
        /\ pc \in {"cleanup", "idle"}
        /\ FramesOf(written) = decoded
        /\ Len(shown) >= 1
        /\ shown[Len(shown)] = written[Len(written)].frame
        /\ pc = "idle" =>
              /\ cap.released
              /\ writer.released
              /\ ret = OutputPath(video_name)

C9_Witness ==
    /\ Returned
    /\ endedBy = "key"
    /\ Len(written) = WindowLen + 4
    /\ ret = OutputPath(video_name)

\* C10: of a source video with N decodable frames the extractor writes an
\* image for exactly the frames with index i < N and i mod 5 = 0, each once
\* and in order, and for no other frame (N = 27: 0, 5, 10, 15, 20, 25).
C10_EveryFifthFrame ==
    xpc = "while" =>
        LET kept == {i \in 0..(count - 1) : i % 5 = 0}
        IN  /\ success => count < nframes
            /\ ~success => count = nframes
            /\ Len(saved) = Cardinality(kept)
            /\ \A j \in 1..Len(saved) : saved[j] = 5 * (j - 1)
            /\ extracted = Len(saved)
            /\ \A i \in kept :
                  [name |-> FrameFile(fname, i), src |-> path, idx |-> i]
                      \in data[xcell]
            /\ ~success => \A f \in data[xcell] : f.src = path => f.idx \in kept

C10_Witness ==
    /\ xpc = "while"
    /\ ~success
    /\ nframes = 27
    /\ saved = <<0, 5, 10, 15, 20, 25>>
    /\ Cardinality({f \in data[xcell] : f.src = path}) = 6
    /\ <<fname, "-", <<0, 0, 2, 5>>, ".jpg">> \in {f.name : f \in data[xcell]}

\* C11: within one extraction run two different (source video, frame index)
\* pairs never get the same output filename, so no cv2.imwrite of the run
\* overwrites a frame of another source video or of another index.
C11_DistinctFramesDistinctFiles ==
    \A a \in run.writes : \A b \in run.writes :
        a.name = b.name => (a.src = b.src /\ a.idx = b.idx)

\* C12: after an extraction run over a destination directory that was empty
\* when the run started, the count the cell prints for its category is the
\* number of image files the directory holds.
C12_ReportedIsOnDisk ==
    (xpc = "idle" /\ run.cat # "none" /\ run.empty) =>
        totals[run.cat] = CountJpg(data[run.cat])

\* C16: whatever the order of the cells, ./data/Violence holds only frames
\* of videos listed from video/Violence and ./data/NonViolence only frames
\* of videos listed from video/NonViolence: the folder of every extracted
\* frame names the folder of its source video.
C16_LabelMatchesSourceFolder ==
    \A c \in Categories : \A f \in data[c] : f.src.dir = SourceDir(c)

\* C13: the window belongs to one call: the loop of every call starts with an
\* empty window, every entry of the window is a score of a frame of this
\* call, and the mean behind the label is an average of scores of this call
\* only, however many videos were processed before.
C13_WindowIsLocal ==
    /\ (pc = "read" /\ scores = <<>>) => Q = <<>>
    /\ InLoop =>
          /\ Len(Q) <= Len(scores)
          /\ \A i \in 1..Len(Q) : Q[i] = scores[Len(scores) - Len(Q) + i]
    /\ Labelled =>
          \E k \in 1..Len(scores) :
              results[1] * (Scale * (Len(scores) - k + 1))
                  = SumSeq(SubSeq(scores, k, Len(scores))) * results[2]

C13_Witness ==
    /\ calls = 2
    /\ pc = "write"
    /\ outBefore # {}
    /\ OutputPath(video_name) \notin outBefore
    /\ Len(scores) = 1
    /\ Q = <<scores[1]>>
    /\ results[1] * Scale = scores[1] * results[2]

\* the name ends, letter case aside, with one of .mp4, .avi, .mov, .mkv
IsVideoName(n) ==
    \E e \in {VideoExtensions[i] : i \in 1..Len(VideoExtensions)} :
        /\ Len(n) >= Len(e)
        /\ \A j \in 1..Len(e) : LowerChar(n[Len(n) - Len(e) + j]) = e[j]

\* r holds exactly the video names of the listing l, each once, unchanged and
\* in the order of l
IsVideoListing(l, r) ==
    LET idx == {i \in 1..Len(l) : IsVideoName(l[i])}
    IN  /\ Len(r) = Cardinality(idx)
        /\ \A k \in 1..Len(r) :
              \E i \in idx : /\ r[k] = l[i]
                             /\ Cardinality({j \in idx : j < i}) = k - 1

C14_ListedVideos ==
    /\ input_videos.called =>
          IsVideoListing(folders["input"].entries, input_videos.videos)
    /\ processed_videos.called =>
          IsVideoListing(folders["output"].entries, processed_videos.videos)

\* C14: list_input_videos and list_processed_videos return exactly the
\* entries of their directory whose name ends, letter case aside, with .mp4,
\* .avi, .mov or .mkv, in the order of the directory listing, nothing added,
\* dropped or reordered, and they change no file or directory.
C14_ListingIsFilter ==
    /\ []C14_ListedVideos
    /\ [][folders' = folders /\ outFiles' = outFiles /\ data' = data]_vars

C14_Witness ==
    /\ input_videos.called
    /\ processed_videos.called
    /\ folders["input"].entries =
          << <<"a", "m", "p", "4">>, <<"A", ".", "M", "P", "4">> >>
    /\ input_videos.videos = << <<"A", ".", "M", "P", "4">> >>
    /\ folders["output"].entries =
          << <<"a", ".", "m", "k", "V">>, <<"a", ".", "m", "p", "4">> >>
    /\ processed_videos.videos = folders["output"].entries

\* C15: however the loop ended, by a failed read or by a keypress, the N of
\* "Processed N frames" is the number of frames written to the output video.
C15_ReportedIsWritten ==
    (Returned /\ endedBy \in {"eof", "key"}) => reported = Len(written)

\* where a keypress has ended the loop: display is on and the frame written
\* last, which is the frame read last, has an index that is a multiple of 5;
\* with display off the loop ends by a failed read only, every frame read
\* having been written
C17_KeypressState ==
    /\ endedBy = "key" =>
          /\ display
          /\ Len(written) >= 1
          /\ written[Len(written)].frame % 5 = 0
          /\ written[Len(written)].frame = decoded[Len(decoded)]
    /\ ~display => endedBy # "key"
    /\ (~display /\ pc = "cleanup") =>
          /\ endedBy = "eof"
          /\ FramesOf(written) = decoded

\* C17: a keypress can end the loop only when display is true and only
\* right after writing a frame whose zero-based index is a multiple of 5;
\* when display is false the loop ends only by a failed read, so every
\* decodable frame is processed.
C17_KeypressOnlyOnShownFrame ==
    /\ []C17_KeypressState
    /\ [][(endedBy' = "key" /\ endedBy # "key") =>
              /\ pc = "display"
              /\ display
              /\ frame_count % 5 = 0
              /\ written[Len(written)].frame = frame_count
              /\ written' = written]_vars

C17_Witness ==
    /\ pc = "cleanup"
    /\ endedBy = "key"
    /\ display
    /\ Len(written) = 11
    /\ written[11].frame = 10
    /\ frame_count = 10

\* the loads process_video has made so far: at most one in a call, every one
\* but the last a failure, and the handle is what the last one returned
C18_LoadLog ==
    /\ \A i \in 1..Len(load_log) :
          /\ i < Len(load_log) => load_log[i].got = None
          /\ \A j \in 1..Len(load_log) :
                i < j => load_log[i].call < load_log[j].call
    /\ load_log # <<>> => model = load_log[Len(load_log)].got
    /\ (pc \in {"open", "read", "predict", "write", "display", "cleanup"})
          => model = Loaded

\* C18: process_video loads the model only while the global handle is empty:
\* once the handle is set no later step loads again or changes it; a call
\* that finds the handle empty makes one load; a load that fails leaves the
\* handle empty and ends the call with None, so the next call loads again.
C18_LoadOnlyWhileEmpty ==
    /\ []C18_LoadLog
    /\ [][model # None => (model' = model /\ load_log' = load_log)]_vars
    /\ [][(pc = "check_model" /\ model = None) =>
              /\ Len(load_log') = Len(load_log) + 1
              /\ load_log'[Len(load_log')] =
                    [call |-> calls, got |-> IF modelFile THEN Loaded ELSE None]
              /\ model' = load_log'[Len(load_log')].got
              /\ (model' = None) => (ret' = None /\ pc' = "idle")]_vars
    /\ [][load_log' # load_log => (pc = "check_model" /\ model = None)]_vars

C18_Witness ==
    /\ calls = 2
    /\ pc = "read"
    /\ model = Loaded
    /\ load_log = <<[call |-> 1, got |-> None], [call |-> 2, got |-> Loaded]>>

=============================================================================
